---- MODULE Spec2Model ----
(***************************************************************************)
(* wikicrawl (src/main.go): a "first link" crawler.  One worker goroutine  *)
(* walks from a start article, following the first accepted link of each   *)
(* article, until the current article matches a target regexp; the main    *)
(* goroutine waits for the worker or for SIGINT and prints the path.       *)
(*                                                                         *)
(* Strings are modelled as sequences of chunks: a chunk is a run of        *)
(* characters that the program never splits ("Car", ":", the corpus        *)
(* prefix).  HasPrefix, TrimPrefix, Contains and the suffix test on error  *)
(* messages work on chunks as the Go functions work on bytes.              *)
(***************************************************************************)
EXTENDS Integers, Sequences, FiniteSets, TLC

\* ------------------------------------------------------------------------
\* Bounds of the model
\* ------------------------------------------------------------------------

\* Largest number of anchors in an article's paragraph.
MaxAnchors == 2

\* Largest number of tags in a document of the scanner's structural corpus.
MaxTokens == 6

\* How far below zero the linked-list variant's follow counter is followed.
MaxUnderflow == 2

\* ------------------------------------------------------------------------
\* Program constants and string functions
\* ------------------------------------------------------------------------

divId == "mw-content-text"

prefix == <<"http://en.wikipedia.org/wiki/">>

HasPrefix(s, p) ==
    /\ Len(s) >= Len(p)
    /\ SubSeq(s, 1, Len(p)) = p

TrimPrefix(s, p) ==
    IF HasPrefix(s, p) THEN SubSeq(s, Len(p) + 1, Len(s)) ELSE s

Contains(s, c) ==
    \E i \in 1..Len(s) : s[i] = c

\* regexp.MatchString for a literal pattern: the pattern occurs somewhere in s.
MatchString(re, s) ==
    \E i \in 0..(Len(s) - Len(re)) : SubSeq(s, i + 1, i + Len(re)) = re

\* The schemes an absolute href of the model can start with.
AbsoluteHeads == {"http://en.wikipedia.org/wiki/", "http://example.org/"}

\* page.Url.Parse(href): the href resolved against the page's URL.
\*   "/wiki/" name       host-relative: the corpus prefix followed by name
\*   scheme ...          absolute: itself
\*   "#" ...             fragment only: the base followed by the fragment
\*   a "%zz" chunk       an invalid escape: a parse error
ResolveHref(base, href) ==
    IF Contains(href, "%zz") \/ href = <<>>
    THEN [ok |-> FALSE, url |-> <<>>]
    ELSE IF href[1] = "/wiki/"
    THEN [ok |-> TRUE, url |-> prefix \o Tail(href)]
    ELSE IF href[1] \in AbsoluteHeads
    THEN [ok |-> TRUE, url |-> href]
    ELSE [ok |-> TRUE, url |-> base \o href]

\* ------------------------------------------------------------------------
\* Tokens and documents
\* ------------------------------------------------------------------------

StartTag(name, attrs) == [tt |-> "StartTag", tn |-> name, attrs |-> attrs]

EndTag(name) == [tt |-> "EndTag", tn |-> name, attrs |-> <<>>]

TextToken == [tt |-> "Text", tn |-> "", attrs |-> <<>>]

Anchor(href) == StartTag("a", << <<"href", href>> >>)

\* Error messages, as chunks; io.EOF is what the tokenizer reports at the
\* end of a body that was read to its end.
ErrEOF == <<"EOF">>

ErrReset == <<"read: ", "connection reset by peer">>

ErrGetEOF == <<"Get: ", "EOF">>

ErrGetRefused == <<"Get: ", "connection refused">>

\* The URL no anchor has set: pg.Url of a fresh Page.
NilUrl == <<"nil">>

\* ------------------------------------------------------------------------
\* The acceptance function (the closure of main passed to FollowLink)
\* ------------------------------------------------------------------------

\* acceptFunc without its first test: a page once visited can be accepted again.
acceptFuncRevisits(visited, ur) ==
    /\ HasPrefix(ur, prefix)
    /\ LET str == TrimPrefix(ur, prefix)
       IN  ~(Contains(str, ":") \/ Contains(str, "/") \/ Contains(str, "#"))

\* acceptFunc without the namespace test: "File:Car" is an article.
acceptFuncAnyNamespace(visited, ur) ==
    /\ ur \notin visited
    /\ HasPrefix(ur, prefix)
    /\ LET str == TrimPrefix(ur, prefix)
       IN  ~(Contains(str, "/") \/ Contains(str, "#"))

acceptFunc(visited, ur) ==
    IF ur \in visited
    THEN FALSE
    ELSE IF ~HasPrefix(ur, prefix)
    THEN FALSE
    ELSE LET str == TrimPrefix(ur, prefix)
         IN  IF Contains(str, ":") \/ Contains(str, "/") \/ Contains(str, "#")
             THEN FALSE
             ELSE TRUE

\* ------------------------------------------------------------------------
\* Page.FollowLink
\* ------------------------------------------------------------------------

\* The attribute loop of a div start tag: TRUE when some attribute is
\* id = divId.
\* An attribute loop that takes every div with an id for the content div.
HasAnyId(attrs) == \E i \in 1..Len(attrs) : attrs[i][1] = "id"

RECURSIVE HasContentId(_)
HasContentId(attrs) ==
    IF attrs = <<>>
    THEN FALSE
    ELSE \/ (Head(attrs)[1] = "id" /\ Head(attrs)[2] = divId)
         \/ HasContentId(Tail(attrs))

\* The attribute loop of an anchor: pg.Url after the loop.  Every href that
\* parses overwrites pg.Url; an href that does not parse ends the loop.
RECURSIVE AnchorUrl(_, _, _)
AnchorUrl(base, attrs, url) ==
    IF attrs = <<>>
    THEN url
    ELSE IF Head(attrs)[1] = "href"
    THEN LET r == ResolveHref(base, Head(attrs)[2])
         IN  IF r.ok THEN AnchorUrl(base, Tail(attrs), r.url) ELSE url
    ELSE AnchorUrl(base, Tail(attrs), url)

\* The token loop from toks[i] on, in scanner state (inBody, inP, depth).
\* The result is a link, an error, or a panic (the acceptance function
\* dereferences the nil pg.Url of an anchor that set none); proposed lists
\* the arguments of the calls of the acceptance function, in order, and at
\* the positions of the anchors they were made for.
RECURSIVE ScanTokens(_, _, _, _, _, _, _)
ScanTokens(base, visited, doc, i, inBody, inP, depth) ==
    IF i > Len(doc.toks)
    THEN [kind |-> "err", err |-> doc.err, url |-> NilUrl, proposed |-> <<>>,
          at |-> <<>>]
    ELSE LET t == doc.toks[i]
         IN  IF t.tt \notin {"StartTag", "EndTag"}
             THEN ScanTokens(base, visited, doc, i + 1, inBody, inP, depth)
             ELSE IF t.tn = "div"
             THEN IF t.tt = "StartTag"
                  THEN IF inBody
                       THEN ScanTokens(base, visited, doc, i + 1, inBody, inP, depth + 1)
                       ELSE ScanTokens(base, visited, doc, i + 1,
                                       HasContentId(t.attrs), inP, depth)
                  ELSE ScanTokens(base, visited, doc, i + 1,
                                  IF depth = 0 THEN FALSE ELSE inBody, inP, depth)
             ELSE IF inBody /\ t.tn = "p"
             THEN ScanTokens(base, visited, doc, i + 1, inBody,
                             IF t.tt = "StartTag" THEN inP + 1 ELSE inP - 1, depth)
             ELSE IF inP > 0 /\ t.tt = "StartTag" /\ t.tn = "a"
             THEN LET u == AnchorUrl(base, t.attrs, NilUrl)
                  IN  IF u = NilUrl
                      THEN [kind |-> "panic", err |-> <<>>, url |-> NilUrl,
                            proposed |-> <<u>>, at |-> <<i>>]
                      ELSE IF acceptFunc(visited, u)
                      THEN [kind |-> "link", err |-> <<>>, url |-> u,
                            proposed |-> <<u>>, at |-> <<i>>]
                      ELSE LET r == ScanTokens(base, visited, doc, i + 1,
                                               inBody, inP, depth)
                           IN  [r EXCEPT !.proposed = <<u>> \o r.proposed,
                                         !.at = <<i>> \o r.at]
             ELSE ScanTokens(base, visited, doc, i + 1, inBody, inP, depth)

\* FollowLink on the page at url, whose fetch gave resp: a transport error
\* is returned as it is, a body is scanned from its first token.
FollowLink(url, visited, resp) ==
    IF ~resp.ok
    THEN [kind |-> "err", err |-> resp.err, url |-> NilUrl, proposed |-> <<>>,
          at |-> <<>>]
    ELSE ScanTokens(url, visited, resp, 1, FALSE, 0, 0)

\* ------------------------------------------------------------------------
\* The corpus: what a fetch can return
\* ------------------------------------------------------------------------

Names == { <<"Vehicle">>, <<"Transport">>, <<"Car">> }

ArticleUrl(name) == prefix \o name

ArticleUrls == { ArticleUrl(n) : n \in Names }

\* Host-relative hrefs to the articles of the corpus.
ArticleHrefs == { <<"/wiki/">> \o n : n \in Names }

\* The lists of at most n different article hrefs.
AnchorLists(n) ==
    UNION { { s \in [1..k -> ArticleHrefs] :
                \A i, j \in 1..k : s[i] = s[j] => i = j } : k \in 0..n }

ContentDiv == StartTag("div", << <<"class", "body">>, <<"id", divId>> >>)

\* An article whose content div holds one paragraph with the given anchors.
Article(hrefs, err) ==
    [ok |-> TRUE,
     toks |-> <<ContentDiv, StartTag("p", <<>>), TextToken>>
              \o [i \in 1..Len(hrefs) |-> Anchor(hrefs[i])]
              \o <<EndTag("p"), EndTag("div")>>,
     err |-> err]

\* Anchors the acceptance function rejects, then an absolute link to Car.
FilteredArticle ==
    [ok |-> TRUE,
     toks |-> <<ContentDiv, StartTag("p", <<>>),
                Anchor(<<"/wiki/", "File", ":", "Car">>),
                Anchor(<<"http://example.org/", "Car">>),
                Anchor(<<"#", "cite1">>),
                Anchor(<<"http://en.wikipedia.org/wiki/", "Car">>),
                EndTag("p"), EndTag("div")>>,
     err |-> ErrEOF]

\* An anchor without href in the content paragraph.
NamedAnchorArticle ==
    [ok |-> TRUE,
     toks |-> <<ContentDiv, StartTag("p", <<>>),
                StartTag("a", << <<"name", "top">> >>),
                Anchor(<<"/wiki/", "Car">>), EndTag("p"), EndTag("div")>>,
     err |-> ErrEOF]

TransportError(err) == [ok |-> FALSE, toks |-> <<>>, err |-> err]

\* Everything http.Get and the tokenizer can give for one article.
Responses ==
    { Article(h, ErrEOF) : h \in AnchorLists(MaxAnchors) }
    \cup { FilteredArticle, NamedAnchorArticle,
           Article(<< <<"/wiki/", "Transport">> >>, ErrReset),
           TransportError(ErrGetRefused), TransportError(ErrGetEOF) }

Unfetched == [ok |-> FALSE, toks |-> <<>>, err |-> <<>>]

\* The command lines of the model's runs: a target regexp (a literal) and a
\* start article.  The start article matches, another article matches, or
\* no article does.
Inputs ==
    { [target |-> <<"Car">>, start |-> <<"Car">>],
      [target |-> <<"Car">>, start |-> <<"Vehicle">>],
      [target |-> <<"Zeppelin">>, start |-> <<"Vehicle">>] }

\* ------------------------------------------------------------------------
\* The scanner's corpus: documents FollowLink is run on by itself
\* ------------------------------------------------------------------------

Document(toks) == [ok |-> TRUE, toks |-> toks, err |-> ErrEOF]

OtherDiv == StartTag("div", << <<"id", "toc">> >>)

\* The tags the scanner's state depends on, and one acceptable anchor.
StructTokens ==
    { ContentDiv, OtherDiv, EndTag("div"), StartTag("p", <<>>), EndTag("p"),
      Anchor(<<"/wiki/", "Car">>) }

\* Every sequence of at most MaxTokens of these tags, well nested or not.
StructDocs ==
    { Document(s) : s \in UNION { [1..k -> StructTokens] : k \in 0..MaxTokens } }

\* Anchors as articles carry them: acceptable ones, ones the acceptance
\* function rejects, one whose href does not parse, one without href.
AnchorTokens ==
    { Anchor(<<"/wiki/", "Car">>),
      Anchor(<<"http://en.wikipedia.org/wiki/", "Car">>),
      Anchor(<<"/wiki/", "Transport">>),
      Anchor(<<"/wiki/", "Vehicle">>),
      Anchor(<<"/wiki/", "File", ":", "Car">>),
      Anchor(<<"/wiki/", "Car", "/", "Engine">>),
      Anchor(<<"#", "cite1">>),
      Anchor(<<"http://example.org/", "Car">>),
      Anchor(<<"/wiki/", "%zz">>),
      StartTag("a", << <<"name", "top">> >>) }

\* The content div with one paragraph of at most MaxAnchors of these anchors.
AnchorDocs ==
    { Document(<<ContentDiv, StartTag("p", <<>>)>> \o s
               \o <<EndTag("p"), EndTag("div")>>) :
        s \in UNION { [1..k -> AnchorTokens] : k \in 0..MaxAnchors } }

ScanDocs == StructDocs \cup AnchorDocs

\* ------------------------------------------------------------------------
\* container/list
\* ------------------------------------------------------------------------

\* The nil *list.Element.
Nil == [id |-> 0, url |-> NilUrl]

Back(l) == IF l = <<>> THEN Nil ELSE l[Len(l)]

Front(l) == IF l = <<>> THEN Nil ELSE l[1]

InList(l, el) == \E i \in 1..Len(l) : l[i].id = el.id

IndexOf(l, el) == CHOOSE i \in 1..Len(l) : l[i].id = el.id

\* el.Prev(): nil for the front element and for an element of no list.
Prev(l, el) ==
    IF InList(l, el) /\ IndexOf(l, el) > 1 THEN l[IndexOf(l, el) - 1] ELSE Nil

\* el.Next(): nil for the back element and for a removed element.
ElemNext(l, el) ==
    IF InList(l, el) /\ IndexOf(l, el) < Len(l) THEN l[IndexOf(l, el) + 1] ELSE Nil

Remove(l, el) ==
    IF InList(l, el)
    THEN SubSeq(l, 1, IndexOf(l, el) - 1) \o SubSeq(l, IndexOf(l, el) + 1, Len(l))
    ELSE l

PushBack(l, el) == Append(l, el)

Urls(l) == [i \in 1..Len(l) |-> l[i].url]

\* ------------------------------------------------------------------------
\* State
\* ------------------------------------------------------------------------

VARIABLES
    target,       \* targetRegex, compiled from os.Args[1]
    start,        \* the URL of the start article, prefix + os.Args[2]
    web,          \* what the fetch of each article returns, once it was fetched
    pageList,     \* the path: a list of elements [id, url] (Page.Title is only printed)
    nextId,       \* the identity of the next list element
    haveVisited,  \* the keys of the map haveVisited
    wpc,          \* the worker: "scan", "follow", "send", "finished", "fatal", "panic"
    listItem,     \* the worker's listItem
    mpc,          \* main: "notify", "select", "waiting", "header", "front", "loop", "returned"
    notified,     \* signal.Notify has been called
    e,            \* the report loop's element
    header,       \* the length printed by "=== Link path of length %d ===", -1 before
    lines,        \* the "Article" lines printed so far, in order
    found,        \* the count printed by "Found match, took %d follows", -1 before
    fatalMsg,     \* what log.Fatal printed, <<>> before
    proc,         \* the process: "running", "exit0", "exit1", "panic", "sigkill"
    sig,          \* the SIGINT of the run: "none", "killed", "lost", "received"
    sigRunning,   \* the worker was in its loop when the SIGINT was sent
    fetched,      \* history: the URLs http.Get was called with
    appended,     \* history: the URLs put on the path, in order
    backtracks,   \* history: the number of list elements removed
    pathHist,     \* history: every value the path has had
    stepsAfter,   \* history: the worker iterations begun after cancelled: 0, 1, or 2 for more
    visits        \* the follow counter of the linked-list variant; main.go keeps none

vars ==
    <<target, start, web, pageList, nextId, haveVisited, wpc, listItem, mpc,
      notified, e, header, lines, found, fatalMsg, proc, sig, sigRunning,
      fetched, appended, backtracks, pathHist, stepsAfter, visits>>

workerVars == <<web, pageList, nextId, haveVisited, wpc, listItem, found, fatalMsg,
                fetched, appended, backtracks, pathHist, stepsAfter>>

mainVars == <<mpc, notified, e, header, lines>>

inputVars == <<target, start>>

sigVars == <<sig, sigRunning>>

variantVars == <<visits>>

\* main has received the SIGINT from the channel sig.
cancelled == sig = "received"

\* main up to the go statement: the arguments are parsed, the start page is
\* on the list, the worker has been started and has not run yet.
Init ==
    /\ \E in \in Inputs :
         /\ target = in.target
         /\ start = ArticleUrl(in.start)
    /\ web = [u \in ArticleUrls |-> Unfetched]
    /\ pageList = << [id |-> 1, url |-> start] >>
    /\ nextId = 2
    /\ haveVisited = {}
    /\ wpc = "scan"
    /\ listItem = Nil
    /\ mpc = "notify"
    /\ notified = FALSE
    /\ e = Nil
    /\ header = -1
    /\ lines = <<>>
    /\ found = -1
    /\ fatalMsg = <<>>
    /\ proc = "running"
    /\ sig = "none"
    /\ sigRunning = FALSE
    /\ fetched = {}
    /\ appended = <<start>>
    /\ backtracks = 0
    /\ pathHist = { <<start>> }
    /\ stepsAfter = 0
    /\ visits = 0

\* ------------------------------------------------------------------------
\* The worker goroutine
\* ------------------------------------------------------------------------

\* A loop that never records the page it scans.
MarkVisitedNothing(visited, url) == visited

\* A loop that keeps only the page it scans in the map.
MarkVisitedForgets(visited, url) == {url}

\* haveVisited[*page.Url] = *page
MarkVisited(visited, url) == visited \cup {url}

\* targetRegex.MatchString(strings.TrimPrefix(page.Url.String(), prefix))
IsTarget(re, url) == MatchString(re, TrimPrefix(url, prefix))

\* The match test made on the list's front element instead of its back.
TailMatchesFront(re, l) == IsTarget(re, Front(l).url)

\* The match test of the loop, made on the list's back element.
TailMatches(re, l) == IsTarget(re, Back(l).url)

\* The number in "Found match, took %d follows".
FollowCount(l) == Len(l)

\* len(str) >= 3 && str[len(str)-3:] == "EOF"
EndsInEOF(err) == Len(err) >= 1 /\ err[Len(err)] = "EOF"

\* The element the dead-end branch takes off the list: e := listItem.Prev().
BacktrackElement(l, item) == Prev(l, item)

\* A dead-end branch that removes nothing.
BacktrackNothing(l, item) == l

\* pageList.Remove(e)
Backtrack(l, item) == Remove(l, BacktrackElement(l, item))

\* The top of the loop: the back element, the visited mark, the match test.
WorkerScan ==
    /\ proc = "running"
    /\ wpc = "scan"
    /\ listItem' = Back(pageList)
    /\ haveVisited' = MarkVisited(haveVisited, Back(pageList).url)
    /\ IF TailMatches(target, pageList)
       THEN /\ found' = FollowCount(pageList)
            /\ wpc' = "send"
       ELSE /\ found' = found
            /\ wpc' = "follow"
    /\ stepsAfter' = IF cancelled /\ stepsAfter < 2 THEN stepsAfter + 1 ELSE stepsAfter
    /\ UNCHANGED <<web, pageList, nextId, fatalMsg, fetched, appended,
                   backtracks, pathHist>>
    /\ UNCHANGED <<mainVars, inputVars, variantVars, sigVars, proc>>

\* What the fetch of url returns: anything the first time, the same again later.
Fetch(w, url) == IF w[url] = Unfetched THEN Responses ELSE {w[url]}

\* FollowLink on the back element and what the loop does with its result.
WorkerFollow ==
    /\ proc = "running"
    /\ wpc = "follow"
    /\ \E resp \in Fetch(web, listItem.url) :
         LET r == FollowLink(listItem.url, haveVisited, resp)
         IN  /\ web' = [web EXCEPT ![listItem.url] = resp]
             /\ fetched' = fetched \cup {listItem.url}
             /\ IF r.kind = "link"
                THEN /\ pageList' = PushBack(pageList, [id |-> nextId, url |-> r.url])
                     /\ nextId' = nextId + 1
                     /\ appended' = Append(appended, r.url)
                     /\ wpc' = "scan"
                     /\ UNCHANGED <<fatalMsg, proc, backtracks>>
                ELSE IF r.kind = "panic"
                THEN /\ wpc' = "panic"
                     /\ proc' = "panic"
                     /\ UNCHANGED <<pageList, nextId, appended, fatalMsg, backtracks>>
                ELSE IF EndsInEOF(r.err) /\ BacktrackElement(pageList, listItem) # Nil
                THEN /\ pageList' = Backtrack(pageList, listItem)
                     /\ backtracks' = backtracks + 1
                     /\ wpc' = "scan"
                     /\ UNCHANGED <<nextId, appended, fatalMsg, proc>>
                ELSE /\ wpc' = "fatal"
                     /\ proc' = "exit1"
                     /\ fatalMsg' = IF EndsInEOF(r.err)
                                    THEN <<"Cannot find links on provided page">>
                                    ELSE r.err
                     /\ UNCHANGED <<pageList, nextId, appended, backtracks>>
    /\ pathHist' = pathHist \cup {Urls(pageList')}
    /\ UNCHANGED <<haveVisited, listItem, found, stepsAfter>>
    /\ UNCHANGED <<mainVars, inputVars, variantVars, sigVars>>

\* ------------------------------------------------------------------------
\* The main goroutine
\* ------------------------------------------------------------------------

\* sig := make(chan os.Signal); signal.Notify(sig, os.Interrupt)
MainNotify ==
    /\ proc = "running"
    /\ mpc = "notify"
    /\ mpc' = "select"
    /\ notified' = TRUE
    /\ UNCHANGED <<e, header, lines, workerVars, inputVars, variantVars, sigVars, proc>>

\* main reaches the select and blocks on done and sig.
MainSelect ==
    /\ proc = "running"
    /\ mpc = "select"
    /\ mpc' = "waiting"
    /\ UNCHANGED <<notified, e, header, lines, workerVars, inputVars, variantVars, sigVars, proc>>

\* done <- true meets case <-done: the channel is unbuffered.
RecvDone ==
    /\ proc = "running"
    /\ wpc = "send"
    /\ mpc = "waiting"
    /\ wpc' = "finished"
    /\ mpc' = "header"
    /\ UNCHANGED <<web, pageList, nextId, haveVisited, listItem, found, fatalMsg,
                   fetched, appended, backtracks, pathHist, stepsAfter>>
    /\ UNCHANGED <<notified, e, header, lines, inputVars, variantVars, sigVars, proc>>

\* fmt.Printf("=== Link path of length %d ===\n", pageList.Len())
MainHeader ==
    /\ proc = "running"
    /\ mpc = "header"
    /\ header' = Len(pageList)
    /\ mpc' = "front"
    /\ UNCHANGED <<notified, e, lines, workerVars, inputVars, variantVars, sigVars, proc>>

\* e := pageList.Front()
MainFront ==
    /\ proc = "running"
    /\ mpc = "front"
    /\ e' = Front(pageList)
    /\ mpc' = "loop"
    /\ UNCHANGED <<notified, header, lines, workerVars, inputVars, variantVars, sigVars, proc>>

\* One turn of the report loop: the line of e, then e = e.Next().
MainPrint ==
    /\ proc = "running"
    /\ mpc = "loop"
    /\ e # Nil
    /\ lines' = Append(lines, TrimPrefix(e.url, prefix))
    /\ e' = ElemNext(pageList, e)
    /\ UNCHANGED <<mpc, notified, header, workerVars, inputVars, variantVars, sigVars, proc>>

\* The report loop ends and main returns: the process exits.
MainReturn ==
    /\ proc = "running"
    /\ mpc = "loop"
    /\ e = Nil
    /\ mpc' = "returned"
    /\ proc' = "exit0"
    /\ UNCHANGED <<notified, e, header, lines, workerVars, inputVars, variantVars, sigVars>>

\* ------------------------------------------------------------------------
\* SIGINT
\* ------------------------------------------------------------------------

WorkerRunning == wpc \in {"scan", "follow"}

\* The runtime's delivery of the run's SIGINT (the user presses ^C once).
\* Before signal.Notify the signal ends the process.  After it, the runtime
\* sends on sig without blocking: main takes the signal when it waits in the
\* select, and the signal is dropped otherwise (the channel has no buffer).
Sigint ==
    /\ proc = "running"
    /\ sig = "none"
    /\ sigRunning' = WorkerRunning
    /\ IF ~notified
       THEN /\ sig' = "killed"
            /\ proc' = "sigkill"
            /\ mpc' = mpc
       ELSE IF mpc = "waiting"
       THEN /\ sig' = "received"
            /\ mpc' = "header"
            /\ proc' = proc
       ELSE /\ sig' = "lost"
            /\ UNCHANGED <<proc, mpc>>
    /\ UNCHANGED <<notified, e, header, lines, workerVars, inputVars, variantVars>>

Worker == WorkerScan \/ WorkerFollow

Next ==
    \/ WorkerScan
    \/ WorkerFollow
    \/ MainNotify
    \/ MainSelect
    \/ RecvDone
    \/ MainHeader
    \/ MainFront
    \/ MainPrint
    \/ MainReturn
    \/ Sigint

Spec == Init /\ [][Next]_vars

\* A run in which no SIGINT is sent.
RunNext ==
    \/ WorkerScan
    \/ WorkerFollow
    \/ MainNotify
    \/ MainSelect
    \/ RecvDone
    \/ MainHeader
    \/ MainFront
    \/ MainPrint
    \/ MainReturn

\* The scheduler runs a goroutine that can run, and every fetch returns.
RunSpec == Init /\ [][RunNext]_vars /\ WF_vars(Worker)

\* ------------------------------------------------------------------------
\* FollowLink by itself
\* ------------------------------------------------------------------------

\* The worker about to call FollowLink on the start article Vehicle, which it
\* has marked visited; the article's document is any of the scanner's corpus.
ScanInit ==
    /\ target = <<"Zeppelin">>
    /\ start = ArticleUrl(<<"Vehicle">>)
    /\ \E d \in ScanDocs :
         web = [u \in ArticleUrls |-> IF u = start THEN d ELSE Unfetched]
    /\ pageList = << [id |-> 1, url |-> start] >>
    /\ nextId = 2
    /\ haveVisited = MarkVisited({}, start)
    /\ wpc = "follow"
    /\ listItem = Back(pageList)
    /\ mpc = "notify"
    /\ notified = FALSE
    /\ e = Nil
    /\ header = -1
    /\ lines = <<>>
    /\ found = -1
    /\ fatalMsg = <<>>
    /\ proc = "running"
    /\ sig = "none"
    /\ sigRunning = FALSE
    /\ fetched = {}
    /\ appended = <<start>>
    /\ backtracks = 0
    /\ pathHist = { <<start>> }
    /\ stepsAfter = 0
    /\ visits = 0

ScanNext == WorkerFollow

ScanSpec == ScanInit /\ [][ScanNext]_vars

\* ------------------------------------------------------------------------
\* The linked-list variant (src/unnamed/part_000)
\* ------------------------------------------------------------------------

\* The variant keeps the path as the chain of Next pointers that begins at
\* startPage: pageList holds the pages of the chain in order, listItem is
\* the worker's variable page, and target is the URL of targetPage.

\* The attribute loop of an anchor: the first href the acceptance function
\* accepts, or nil.  An href that does not parse ends the loop.
RECURSIVE ListAnchorLink(_, _, _)
ListAnchorLink(base, visited, attrs) ==
    IF attrs = <<>>
    THEN NilUrl
    ELSE IF Head(attrs)[1] = "href"
    THEN LET r == ResolveHref(base, Head(attrs)[2])
         IN  IF ~r.ok
             THEN NilUrl
             ELSE IF acceptFunc(visited, r.url)
             THEN r.url
             ELSE ListAnchorLink(base, visited, Tail(attrs))
    ELSE ListAnchorLink(base, visited, Tail(attrs))

\* The token loop of the variant from toks[i] on.
RECURSIVE ListScanTokens(_, _, _, _, _, _, _)
ListScanTokens(base, visited, doc, i, inBody, inP, depth) ==
    IF i > Len(doc.toks)
    THEN [kind |-> "err", err |-> doc.err, url |-> NilUrl]
    ELSE LET t == doc.toks[i]
         IN  IF t.tt \notin {"StartTag", "EndTag"}
             THEN ListScanTokens(base, visited, doc, i + 1, inBody, inP, depth)
             ELSE IF t.tn = "div"
             THEN IF t.tt = "StartTag"
                  THEN IF inBody
                       THEN ListScanTokens(base, visited, doc, i + 1, inBody, inP, depth + 1)
                       ELSE ListScanTokens(base, visited, doc, i + 1,
                                           HasContentId(t.attrs), inP, depth)
                  ELSE ListScanTokens(base, visited, doc, i + 1,
                                      IF depth = 0 THEN FALSE ELSE inBody, inP, depth)
             ELSE IF inBody /\ t.tn = "p"
             THEN ListScanTokens(base, visited, doc, i + 1, inBody,
                                 IF t.tt = "StartTag" THEN inP + 1 ELSE inP - 1, depth)
             ELSE IF inP > 0 /\ t.tt = "StartTag" /\ t.tn = "a"
             THEN LET u == ListAnchorLink(base, visited, t.attrs)
                  IN  IF u # NilUrl
                      THEN [kind |-> "link", err |-> <<>>, url |-> u]
                      ELSE ListScanTokens(base, visited, doc, i + 1, inBody, inP, depth)
             ELSE ListScanTokens(base, visited, doc, i + 1, inBody, inP, depth)

ListFollowLink(url, visited, resp) ==
    IF ~resp.ok
    THEN [kind |-> "err", err |-> resp.err, url |-> NilUrl]
    ELSE ListScanTokens(url, visited, resp, 1, FALSE, 0, 0)

\* page.IsMatch(targetPage)
IsMatch(url, opage) == url = opage

\* err.Error() == "EOF"
IsEOF(err) == err = ErrEOF

\* lp after the walk along the chain: the page before the last one, and
\* startPage when the chain has no second page.
LastParent(l) == IF Len(l) >= 2 THEN l[Len(l) - 1] ELSE l[1]

\* page.Next = p: the chain ends with p after page.
SetNext(l, page, p) == SubSeq(l, 1, IndexOf(l, page)) \o <<p>>

\* main of the variant up to the go statement, and page := startPage.
ListInit ==
    /\ \E in \in Inputs :
         /\ target = ArticleUrl(in.target)
         /\ start = ArticleUrl(in.start)
    /\ web = [u \in ArticleUrls |-> Unfetched]
    /\ pageList = << [id |-> 1, url |-> start] >>
    /\ nextId = 2
    /\ haveVisited = {}
    /\ wpc = "follow"
    /\ listItem = pageList[1]
    /\ mpc = "notify"
    /\ notified = FALSE
    /\ e = Nil
    /\ header = -1
    /\ lines = <<>>
    /\ found = -1
    /\ fatalMsg = <<>>
    /\ proc = "running"
    /\ sig = "none"
    /\ sigRunning = FALSE
    /\ fetched = {}
    /\ appended = <<start>>
    /\ backtracks = 0
    /\ pathHist = { <<start>> }
    /\ stepsAfter = 0
    /\ visits = 0

\* One turn of the variant's loop: FollowLink on page, then the dead-end
\* branch, log.Fatal, or the advance with its visited mark and match test.
ListStep ==
    /\ proc = "running"
    /\ wpc = "follow"
    /\ \E resp \in Fetch(web, listItem.url) :
         LET r == ListFollowLink(listItem.url, haveVisited, resp)
             pg == [id |-> nextId, url |-> r.url]
         IN  /\ web' = [web EXCEPT ![listItem.url] = resp]
             /\ fetched' = fetched \cup {listItem.url}
             /\ IF r.kind = "link"
                THEN /\ pageList' = SetNext(pageList, listItem, pg)
                     /\ listItem' = pg
                     /\ nextId' = nextId + 1
                     /\ haveVisited' = MarkVisited(haveVisited, r.url)
                     /\ visits' = visits + 1
                     /\ appended' = Append(appended, r.url)
                     /\ IF IsMatch(r.url, target)
                        THEN /\ found' = visits + 1
                             /\ wpc' = "send"
                        ELSE /\ found' = found
                             /\ wpc' = "follow"
                     /\ UNCHANGED <<fatalMsg, proc, backtracks>>
                ELSE IF IsEOF(r.err) /\ LastParent(pageList) # pageList[1]
                THEN /\ visits - 1 >= -MaxUnderflow
                     /\ listItem' = LastParent(pageList)
                     /\ visits' = visits - 1
                     /\ backtracks' = backtracks + 1
                     /\ UNCHANGED <<pageList, nextId, haveVisited, appended, found,
                                    wpc, fatalMsg, proc>>
                ELSE /\ wpc' = "fatal"
                     /\ proc' = "exit1"
                     /\ fatalMsg' = IF IsEOF(r.err)
                                    THEN <<"Cannot find links on provided page">>
                                    ELSE r.err
                     /\ UNCHANGED <<pageList, nextId, haveVisited, listItem, visits,
                                    appended, found, backtracks>>
    /\ pathHist' = pathHist \cup {Urls(pageList')}
    /\ UNCHANGED <<stepsAfter, mainVars, inputVars, sigVars>>

ListNext == ListStep

ListSpec == ListInit /\ [][ListNext]_vars

\* ------------------------------------------------------------------------
\* Properties
\* ------------------------------------------------------------------------

\* The path without its tail.
AllButLast(l) == SubSeq(l, 1, Len(l) - 1)

\* The identifiers as the report prints them.
Stripped(urls) == [i \in 1..Len(urls) |-> TrimPrefix(urls[i], prefix)]

NoDuplicates(q) == \A i, j \in 1..Len(q) : q[i] = q[j] => i = j

\* The step in which the worker ends a FollowLink call.
FollowStep == wpc = "follow" /\ wpc' # "follow"

\* The result of the FollowLink call a FollowStep ends.
FollowResult == FollowLink(listItem.url, haveVisited, web'[listItem.url])

\* A FollowStep whose call reported "no link found".
DeadEndStep ==
    /\ FollowStep
    /\ FollowResult.kind = "err"
    /\ EndsInEOF(FollowResult.err)

\* C1: whenever the extractor reports "no link found" for a tail that is not
\* the start node, the step removes the tail and nothing else from the path,
\* and the worker goes on to scan the previous node, the new tail.
C1_BacktrackRemovesTail ==
    [][(DeadEndStep /\ Back(pageList).url # start)
         => /\ pageList' = AllButLast(pageList)
            /\ wpc' = "scan"]_vars

\* C2: the loop stops at the first tail that matches the target.  No URL
\* that matches is ever fetched, no node before the tail matches, a scan of
\* a matching tail ends the loop with the "Found match" line, and once the
\* loop has ended on a match the path, the fetches and the visited set no
\* longer change.
C2_StopsAtFirstMatch ==
    /\ [](\A u \in fetched : ~IsTarget(target, u))
    /\ [](\A i \in 1..(Len(pageList) - 1) : ~IsTarget(target, pageList[i].url))
    /\ [][(wpc = "scan" /\ wpc' # "scan" /\ IsTarget(target, Back(pageList).url))
            => (wpc' = "send" /\ found' # -1 /\ fetched' = fetched)]_vars
    /\ [][(wpc \in {"send", "finished"})
            => /\ pageList' = pageList
               /\ fetched' = fetched
               /\ haveVisited' = haveVisited
               /\ wpc' \in {"send", "finished"}]_vars

\* C2's case: the loop ended on a match after two advances and main reports.
C2_Witness ==
    /\ wpc = "finished"
    /\ Len(pageList) = 3
    /\ IsTarget(target, Back(pageList).url)
    /\ mpc = "loop"

\* C3: a SIGINT sent while the worker runs neither ends the process without
\* a report nor is lost, and the process then ends only by main's return
\* after the report.
C3_InterruptIsReported ==
    sigRunning =>
        /\ sig \notin {"killed", "lost"}
        /\ (proc # "running" => proc = "exit0")

\* C4: after main has received the SIGINT the worker begins at most one
\* further iteration of its loop.
C4_AtMostOneStepAfterCancel == cancelled => stepsAfter <= 1

\* C5: the report printed after a cancellation has as many "Article" lines
\* as its header says, and the lines are the path as it was at one moment of
\* the run.
C5_ReportIsSnapshot ==
    (cancelled /\ mpc = "returned")
        => /\ Len(lines) = header
           /\ \E p \in pathHist : lines = Stripped(p)

\* C6: when the run loop ends fatally, the path as it stands has been printed
\* by the time the process ends.
C6_FatalStillReports ==
    (proc = "exit1")
        => /\ header = Len(pageList)
           /\ lines = Stripped(Urls(pageList))

\* C7: the first element of the path is the start article, and the report
\* line with offset 0 names it.
C7_FrontIsStart ==
    /\ Front(pageList).url = start
    /\ (lines # <<>> => lines[1] = TrimPrefix(start, prefix))

\* C8: a run that reaches its match by k advances and no backtrack prints k
\* in "Found match, took %d follows".
C8_FollowsIsAdvances ==
    (found # -1 /\ backtracks = 0) => found = Len(appended) - 1

\* C9: no identifier is put on the path twice, and every identifier put on
\* the path before the current tail is in the visited set, whether its node
\* is still on the path or was removed.
C9_NoRevisit ==
    /\ NoDuplicates(appended)
    /\ \A i \in 1..(Len(appended) - 1) : appended[i] \in haveVisited

\* C9's case: the start article links to itself and then to Transport; the
\* self-link was proposed and rejected and Transport was appended.
C9_Witness ==
    /\ web[ArticleUrl(<<"Vehicle">>)]
         = Article(<< <<"/wiki/", "Vehicle">>, <<"/wiki/", "Transport">> >>, ErrEOF)
    /\ appended = <<ArticleUrl(<<"Vehicle">>), ArticleUrl(<<"Transport">>)>>
    /\ ArticleUrl(<<"Vehicle">>) \in haveVisited

FollowResponse == web'[listItem.url]

\* C11: a failed fetch always ends the run by log.Fatal with the fetch's own
\* error, whatever its message, and leaves the path as it is.
C11_TransportFailureIsFatal ==
    [][(FollowStep /\ ~FollowResponse.ok)
         => /\ wpc' = "fatal"
            /\ fatalMsg' = FollowResponse.err
            /\ pageList' = pageList]_vars

\* The href of a link from the start article to itself.
SelfHref == <<"/wiki/">> \o TrimPrefix(start, prefix)

NoLinksMessage == <<"Cannot find links on provided page">>

\* C12: the tail is in the visited set when FollowLink runs on it, so a link
\* to the scanned article itself is never accepted; and a start article whose
\* only anchor is a link to itself ends the run with "Cannot find links on
\* provided page" and the path still the start node alone.
C12_SelfLinkRejected ==
    /\ [](wpc = "follow" => listItem.url \in haveVisited)
    /\ [][FollowStep
            => /\ (FollowResult.kind = "link" => FollowResult.url # listItem.url)
               /\ (FollowResponse = Article(<<SelfHref>>, ErrEOF) /\ listItem.url = start)
                    => /\ wpc' = "fatal"
                       /\ fatalMsg' = NoLinksMessage
                       /\ Urls(pageList') = <<start>>]_vars

\* C12's case: the start article's only anchor links to itself, the link was
\* proposed and the run ended.
C12_Witness ==
    /\ web[start] = Article(<<SelfHref>>, ErrEOF)
    /\ wpc = "fatal"
    /\ fatalMsg = NoLinksMessage
    /\ Urls(pageList) = <<start>>

\* C18: no step takes a key out of the visited set, and whenever FollowLink
\* is about to run the set holds every identifier that was ever put on the
\* path, removed since or not.
C18_VisitedGrows ==
    /\ [][haveVisited \subseteq haveVisited']_vars
    /\ [](wpc = "follow" => \A i \in 1..Len(appended) : appended[i] \in haveVisited)

\* C18's case: an extraction is about to run after a backtrack, and a node
\* no longer on the path is still in the visited set.
C18_Witness ==
    /\ wpc = "follow"
    /\ backtracks >= 1
    /\ \E u \in haveVisited : \A i \in 1..Len(pageList) : pageList[i].url # u

\* ------------------------------------------------------------------------
\* The scope of a document, read off its tags
\* ------------------------------------------------------------------------

IsDivStart(t) == t.tt = "StartTag" /\ t.tn = "div"

IsDivEnd(t) == t.tt = "EndTag" /\ t.tn = "div"

IsContentDiv(t) ==
    /\ IsDivStart(t)
    /\ \E k \in 1..Len(t.attrs) : t.attrs[k] = <<"id", divId>>

IsAnchor(t) == t.tt = "StartTag" /\ t.tn = "a"

\* The values of the href attributes of a tag, in order.
HrefsOf(t) ==
    LET h == SelectSeq(t.attrs, LAMBDA a : a[1] = "href")
    IN  [k \in 1..Len(h) |-> h[k][2]]

\* Where the first n tags of a document leave a reader: in the content
\* container or not, under how many inner divs of it, and how many more
\* paragraphs were opened than closed in the container.  The container ends
\* at the end tag that matches its start tag.
RECURSIVE Position(_, _)
Position(toks, n) ==
    IF n = 0
    THEN [inBody |-> FALSE, depth |-> 0, inP |-> 0]
    ELSE LET s == Position(toks, n - 1)
             t == toks[n]
         IN  IF ~s.inBody
             THEN IF IsContentDiv(t)
                  THEN [s EXCEPT !.inBody = TRUE]
                  ELSE s
             ELSE IF IsDivStart(t)
             THEN [s EXCEPT !.depth = s.depth + 1]
             ELSE IF IsDivEnd(t)
             THEN IF s.depth = 0
                  THEN [s EXCEPT !.inBody = FALSE]
                  ELSE [s EXCEPT !.depth = s.depth - 1]
             ELSE IF t.tn = "p" /\ t.tt = "StartTag"
             THEN [s EXCEPT !.inP = s.inP + 1]
             ELSE IF t.tn = "p" /\ t.tt = "EndTag"
             THEN [s EXCEPT !.inP = s.inP - 1]
             ELSE s

\* The tag at position i is read inside the content container and inside a
\* paragraph of it.
InScope(toks, i) ==
    LET s == Position(toks, i - 1)
    IN  s.inBody /\ s.inP > 0

\* The positions of the in-scope anchors that carry an href that parses, in
\* document order.
Candidates(base, toks) ==
    SelectSeq([i \in 1..Len(toks) |-> i],
              LAMBDA i : /\ IsAnchor(toks[i])
                         /\ InScope(toks, i)
                         /\ HrefsOf(toks[i]) # <<>>
                         /\ ResolveHref(base, HrefsOf(toks[i])[1]).ok)

CandidateUrl(base, t) == ResolveHref(base, HrefsOf(t)[1]).url

\* The three conditions of acceptance, each by itself.
NotVisited(visited, ur) == ur \notin visited

InCorpus(ur) == Len(ur) >= 1 /\ ur[1] = prefix[1]

PlainArticle(ur) ==
    \A k \in 2..Len(ur) : ur[k] \notin {":", "/", "#"}

\* C13: FollowLink proposes the in-scope anchors in document order up to and
\* including the first one the acceptance function accepts, returns that one,
\* and returns the tokenizer's end-of-input error when none is accepted.
C13_FirstAcceptedInOrder ==
    [][(FollowStep /\ FollowResponse.ok)
         => LET toks == FollowResponse.toks
                c == Candidates(listItem.url, toks)
                ok == { k \in 1..Len(c) :
                          acceptFunc(haveVisited, CandidateUrl(listItem.url, toks[c[k]])) }
                f == IF ok = {} THEN Len(c)
                     ELSE CHOOSE k \in ok : \A j \in ok : k <= j
            IN  /\ FollowResult.at = SubSeq(c, 1, f)
                /\ ok # {} => /\ FollowResult.kind = "link"
                              /\ FollowResult.url = CandidateUrl(listItem.url, toks[c[f]])
                /\ ok = {} => /\ FollowResult.kind = "err"
                              /\ FollowResult.err = FollowResponse.err]_vars

\* C14: every candidate FollowLink proposes is accepted exactly when it is
\* not in the visited set, begins with the corpus prefix, and has none of
\* ":", "/", "#" after the prefix: an accepted candidate ends the call as its
\* result and a rejected one does not; the calls leave the visited set as it
\* is, and the path changes only by the append of the returned link.
C14_AcceptsExactlyThree ==
    [][(FollowStep /\ FollowResponse.ok)
         => LET r == FollowResult
                n == Len(r.proposed)
            IN  /\ \A k \in 1..n :
                     r.proposed[k] # NilUrl
                       => ((k = n /\ r.kind = "link" /\ r.url = r.proposed[k])
                             <=> /\ NotVisited(haveVisited, r.proposed[k])
                                 /\ InCorpus(r.proposed[k])
                                 /\ PlainArticle(r.proposed[k]))
                /\ haveVisited' = haveVisited
                /\ pageList' \in {pageList, Append(pageList, [id |-> nextId, url |-> r.url])}
                /\ (r.kind # "link" => pageList' = pageList)]_vars

\* C14's case: the start article links to File:Car and then to Car; the
\* first was proposed and rejected, the second accepted, and Car is the new
\* tail.
C14_Witness ==
    /\ web[start] = Document(<<ContentDiv, StartTag("p", <<>>),
                               Anchor(<<"/wiki/", "File", ":", "Car">>),
                               Anchor(<<"http://en.wikipedia.org/wiki/", "Car">>),
                               EndTag("p"), EndTag("div")>>)
    /\ wpc = "scan"
    /\ Urls(pageList) = <<start, ArticleUrl(<<"Car">>)>>

\* C15: every anchor FollowLink proposes stands inside the content container
\* (which ends at its own end tag, under any nesting of inner divs) and
\* inside a paragraph of it.
C15_ProposedOnlyInScope ==
    [][(FollowStep /\ FollowResponse.ok)
         => \A k \in 1..Len(FollowResult.at) :
              InScope(FollowResponse.toks, FollowResult.at[k])]_vars

\* C16: on a document without the content div FollowLink calls the
\* acceptance function for no anchor and returns the end-of-input error: the
\* loop appends nothing and takes the call for a dead end.
C16_NoContainerNoLink ==
    [][(/\ FollowStep
        /\ FollowResponse.ok
        /\ \A i \in 1..Len(FollowResponse.toks) : ~IsContentDiv(FollowResponse.toks[i]))
         => /\ FollowResult.proposed = <<>>
            /\ FollowResult.kind = "err"
            /\ FollowResult.err = ErrEOF
            /\ pageList' = pageList
            /\ fatalMsg' = NoLinksMessage]_vars

\* C16's case: the start article has an acceptable anchor in a paragraph of
\* a div that is not the content div, and the call found no link.
C16_Witness ==
    /\ web[start] = Document(<<OtherDiv, StartTag("p", <<>>),
                               Anchor(<<"/wiki/", "Car">>),
                               EndTag("p"), EndTag("div")>>)
    /\ wpc = "fatal"
    /\ fatalMsg = NoLinksMessage
    /\ Urls(pageList) = <<start>>

\* An anchor one of whose hrefs does not parse.
HasBadHref(base, t) ==
    /\ IsAnchor(t)
    /\ \E k \in 1..Len(HrefsOf(t)) : ~ResolveHref(base, HrefsOf(t)[k]).ok

\* C17: the acceptance function is called for no anchor whose href does not
\* parse, and an article whose paragraph holds such an anchor and then a
\* link to Car is followed to Car.
C17_BadHrefSkipped ==
    [][(FollowStep /\ FollowResponse.ok)
         => /\ \A k \in 1..Len(FollowResult.at) :
                 ~HasBadHref(listItem.url, FollowResponse.toks[FollowResult.at[k]])
            /\ FollowResponse
                 = Document(<<ContentDiv, StartTag("p", <<>>),
                              Anchor(<<"/wiki/", "%zz">>),
                              Anchor(<<"/wiki/", "Car">>),
                              EndTag("p"), EndTag("div")>>)
                 => /\ wpc' = "scan"
                    /\ Back(pageList').url = ArticleUrl(<<"Car">>)]_vars

\* C19: the acceptance function is never called with the nil URL, no anchor
\* without href is proposed, and no FollowLink call ends in a crash.
C19_NeverProposesNil ==
    [][FollowStep
         => /\ \A k \in 1..Len(FollowResult.proposed) :
                 FollowResult.proposed[k] # NilUrl
            /\ \A k \in 1..Len(FollowResult.at) :
                 HrefsOf(FollowResponse.toks[FollowResult.at[k]]) # <<>>
            /\ wpc' # "panic"
            /\ proc' # "panic"]_vars

\* A turn of the variant's loop whose FollowLink call reported "no link
\* found" for a page the worker had gone back to.
ListDeadEndAgain ==
    /\ wpc = "follow"
    /\ listItem # Back(pageList)
    /\ fetched' = fetched \cup {listItem.url}
    /\ ListFollowLink(listItem.url, haveVisited, web'[listItem.url]).kind = "err"
    /\ IsEOF(ListFollowLink(listItem.url, haveVisited, web'[listItem.url]).err)

\* C20: in the variant, when the page the worker went back to is a dead end
\* too, the turn either ends the run or moves the worker to a page earlier in
\* the chain; it never selects the same page again.
C20_BacktrackMovesBack ==
    [][ListDeadEndAgain
         => \/ wpc' \in {"fatal", "send"}
            \/ /\ InList(pageList', listItem')
               /\ IndexOf(pageList', listItem') < IndexOf(pageList, listItem)]_vars

====
